---- MODULE Spec2Model ----
(***************************************************************************)
(* sgxtop-rs: a terminal monitor that samples /proc/sgx_stats and          *)
(* /proc/sgx_enclaves once per tick, derives per-second rates from the     *)
(* cumulative counters and redraws the screen; 'q' or Ctrl-c quits.        *)
(*                                                                         *)
(* u64 values are modelled at WordBits bits (TLC's integers are 32 bits    *)
(* wide): every u64 operation is reduced modulo U64Modulus exactly where   *)
(* the machine reduces it modulo 2^64.  A fallible computation returns a   *)
(* sequence: <<v>> for the value v, <<>> for a panic (or None / Err).      *)
(***************************************************************************)
EXTENDS Integers, Sequences, FiniteSets, TLC

VARIABLES
  overflow_checks,    \* the build: TRUE when arithmetic overflow panics (debug), FALSE when it wraps (release)
  pc,                 \* position of main: "init", "running", "terminated", "panicked"
  g,                  \* the GlobalStats value owned by main
  cursor,             \* terminal cursor: "shown" or "hidden"
  frame,              \* <<>> or <<f>>: the last frame flushed to the screen
  queue,              \* the channel of events between the producers and main
  stats_src,          \* what /proc/sgx_stats held at the last read
  encl_src,           \* what /proc/sgx_enclaves held at the last read
  draws,              \* number of calls of draw so far
  resets,             \* number of calls of reset so far
  fault,              \* why main panicked, "none" otherwise
  last,               \* the event main received last, <<>> before the first
  ev,                 \* result of a stand-alone read_sgx_enclave
  mem,                \* a Memory value handed to Display
  shown               \* the bytes Display wrote for mem

vars == <<overflow_checks, pc, g, cursor, frame, queue, stats_src, encl_src,
          draws, resets, fault, last, ev, mem, shown>>

---------------------------------------------------------------------------
(* Bounds of the model *)

WordBits == 24
MaxQueue == 2
MaxDraws == 3
MaxCount == 1
MaxLines == 2
MaxMem == 2100

U64Modulus == 2 ^ WordBits

---------------------------------------------------------------------------
(* Bytes *)

SP == 32
LF == 10
CR == 13
ZERO == 48
LETTER_K == 75
LETTER_M == 77

None == <<>>
Some(v) == <<v>>
Unwrap(o) == o[1]

(* slice::split: the pieces of s between the bytes of D; n delimiters give *)
(* n + 1 pieces, empty ones included                                        *)
RECURSIVE split_from(_, _, _)
split_from(s, D, cur) ==
  IF s = <<>> THEN <<cur>>
  ELSE IF Head(s) \in D THEN <<cur>> \o split_from(Tail(s), D, <<>>)
  ELSE split_from(Tail(s), D, Append(cur, Head(s)))

split(s, D) == split_from(s, D, <<>>)

(* u8 subtraction x - 48 and the u64 multiply-add of the fold closure *)
RECURSIVE fold_digits(_, _, _)
fold_digits(tok, acc, checks) ==
  IF tok = <<>> THEN Some(acc)
  ELSE LET d   == Head(tok) - ZERO
           d8  == IF d < 0 THEN d + 256 ELSE d
           sum == acc * 10 + d8
       IN IF checks /\ (d < 0 \/ sum >= U64Modulus)
          THEN None
          ELSE fold_digits(Tail(tok), sum % U64Modulus, checks)

(* iter.next().unwrap() for the i-th piece: a missing piece panics *)
next_unwrap(toks, i, checks) ==
  IF i > Len(toks) THEN None ELSE fold_digits(toks[i], 0, checks)

shl(v, n) == (v * 2 ^ n) % U64Modulus
shr(v, n) == v \div 2 ^ n

u64_sub(a, b, checks) ==
  IF a >= b THEN Some(a - b)
  ELSE IF checks THEN None
  ELSE Some(a - b + U64Modulus)

Memory_sub(self, other, checks) == u64_sub(self, other, checks)

(* u64's decimal Display *)
RECURSIVE Decimal(_)
Decimal(n) == IF n < 10 THEN <<ZERO + n>> ELSE Append(Decimal(n \div 10), ZERO + (n % 10))

PadLeft(s, w) == [i \in 1..(IF Len(s) < w THEN w - Len(s) ELSE 0) |-> SP] \o s

Memory_fmt_above(v) ==
  IF v > 1024
  THEN Append(PadLeft(Decimal(v \div 1024), 7), LETTER_M)
  ELSE Append(PadLeft(Decimal(v), 7), LETTER_K)

Memory_fmt(v) ==
  IF v >= 1024
  THEN Append(PadLeft(Decimal(v \div 1024), 7), LETTER_M)
  ELSE Append(PadLeft(Decimal(v), 7), LETTER_K)

---------------------------------------------------------------------------
(* read_sgx_enclave *)

Delims == {SP, LF, CR}
LineDelims == {LF, CR}

Enclave_swap_before_state(n) ==
  IF \E i \in 1..8 : n[i] = None THEN None
  ELSE Some([pid   |-> Unwrap(n[1]),
             eid   |-> Unwrap(n[2]),
             virt  |-> shr(Unwrap(n[3]), 10),
             eadds |-> shl(Unwrap(n[4]), 2),
             rss   |-> shl(Unwrap(n[5]), 2),
             va    |-> shl(Unwrap(n[6]), 2),
             state |-> Unwrap(n[8]),
             swap  |-> shl(Unwrap(n[7]), 2)])

(* an Enclave from the eight numbers of a line; None when an unwrap or    *)
(* the arithmetic of the fold panicked                                     *)
Enclave(n) ==
  IF \E i \in 1..8 : n[i] = None THEN None
  ELSE Some([pid   |-> Unwrap(n[1]),
             eid   |-> Unwrap(n[2]),
             virt  |-> shr(Unwrap(n[3]), 10),
             eadds |-> shl(Unwrap(n[4]), 2),
             rss   |-> shl(Unwrap(n[5]), 2),
             va    |-> shl(Unwrap(n[6]), 2),
             state |-> Unwrap(n[7]),
             swap  |-> shl(Unwrap(n[8]), 2)])

line_fields(toks, checks) ==
  <<next_unwrap(toks, 1, checks), next_unwrap(toks, 2, checks),
    next_unwrap(toks, 3, checks), next_unwrap(toks, 4, checks),
    next_unwrap(toks, 5, checks), next_unwrap(toks, 6, checks),
    next_unwrap(toks, 7, checks), next_unwrap(toks, 8, checks)>>

(* the closure mapping one line to an Enclave *)
parse_line(line, checks) == Enclave(line_fields(split(line, Delims), checks))

collect(recs) ==
  IF \E k \in 1..Len(recs) : recs[k] = None
  THEN [res |-> "panic", v |-> <<>>]
  ELSE [res |-> "Ok", v |-> [k \in 1..Len(recs) |-> Unwrap(recs[k])]]

RECURSIVE map_lines(_, _)
map_lines(lines, checks) ==
  IF lines = <<>> THEN <<>>
  ELSE <<parse_line(Head(lines), checks)>> \o map_lines(Tail(lines), checks)

(* file is the outcome of fs::read: <<bytes>> or <<>> for an io::Error.    *)
(* The result is "Ok" with the records, "Err", or "panic".                 *)
read_sgx_enclave(file, checks) ==
  IF file = None THEN [res |-> "Err", v |-> <<>>]
  ELSE collect(map_lines(SelectSeq(split(Unwrap(file), LineDelims), LAMBDA l : Len(l) # 0), checks))

---------------------------------------------------------------------------
(* GlobalStats *)

GlobalStats_new ==
  [sgx_encl_created        |-> 0,
   sgx_encl_released       |-> 0,
   sgx_pages_alloced       |-> None,
   sgx_pages_freed         |-> None,
   sgx_nr_total_epc_pages  |-> 0,
   sgx_va_pages_cnt        |-> 0,
   sgx_nr_free_pages       |-> 0,
   sgx_ewb_cnt             |-> None,
   sgx_eldu_cnt            |-> None,
   sgx_freed_backing_pages |-> 0]

speed_from_zero(held, new, checks) ==
  IF held = None THEN Some(new) ELSE Memory_sub(new, Unwrap(held), checks)

(* match held { None => Memory(0), Some(old) => new - old } *)
speed(held, new, checks) ==
  IF held = None THEN Some(0) ELSE Memory_sub(new, Unwrap(held), checks)

(* match self.sgx_ewb_cnt { None => Memory(0), Some(_) => ewb - eldu - freed_backing } *)
(* evaluated on the GlobalStats value as it is at that line                             *)
swap_size(gs, checks) ==
  IF gs.sgx_ewb_cnt = None THEN Some(0)
  ELSE LET d == Memory_sub(Unwrap(gs.sgx_ewb_cnt), Unwrap(gs.sgx_eldu_cnt), checks)
       IN IF d = None THEN None
          ELSE Memory_sub(Unwrap(d), gs.sgx_freed_backing_pages, checks)

Panicked(gs, why) == [fault |-> why, g |-> gs, frame |-> None]

(* the ten iter.next().unwrap() of draw, in order *)
stats_fields(toks, checks) ==
  <<next_unwrap(toks, 1, checks), next_unwrap(toks, 2, checks),
    next_unwrap(toks, 3, checks), next_unwrap(toks, 4, checks),
    next_unwrap(toks, 5, checks), next_unwrap(toks, 6, checks),
    next_unwrap(toks, 7, checks), next_unwrap(toks, 8, checks),
    next_unwrap(toks, 9, checks), next_unwrap(toks, 10, checks)>>

(* the frame draw writes: the summary lines, the swap line and the rows.   *)
(* g2 is the GlobalStats value after the four held values were replaced.   *)
draw_frame(gs, g2, eadd_speed, eremove_speed, ewb_speed, eldu_speed, running, used, swap, rows, checks) ==
  IF \E r \in {eadd_speed, eremove_speed, ewb_speed, eldu_speed} : r = None
  THEN Panicked(gs, "overflow_speed")
  ELSE IF running = None THEN Panicked(gs, "overflow_running")
  ELSE IF used = None THEN Panicked(gs, "overflow_used")
  ELSE IF swap = None THEN Panicked(gs, "overflow_swap")
  ELSE IF rows.res = "Err" THEN Panicked(gs, "enclaves_unreadable")
  ELSE IF rows.res = "panic" THEN Panicked(gs, "enclaves_malformed")
  ELSE [fault |-> "none",
        g     |-> g2,
        frame |-> Some([running       |-> Unwrap(running),
                        created       |-> g2.sgx_encl_created,
                        eadd_speed    |-> Unwrap(eadd_speed),
                        eremove_speed |-> Unwrap(eremove_speed),
                        ewb_speed     |-> Unwrap(ewb_speed),
                        eldu_speed    |-> Unwrap(eldu_speed),
                        total         |-> g2.sgx_nr_total_epc_pages,
                        free          |-> g2.sgx_nr_free_pages,
                        used          |-> Unwrap(used),
                        va            |-> g2.sgx_va_pages_cnt,
                        swap          |-> Unwrap(swap),
                        rows          |-> rows.v])]

(* the held values are replaced, then the derived quantities are computed *)
draw_derive(gs, g2, eadd_speed, eremove_speed, ewb_speed, eldu_speed, encl, checks) ==
  draw_frame(gs, g2, eadd_speed, eremove_speed, ewb_speed, eldu_speed,
             u64_sub(g2.sgx_encl_created, g2.sgx_encl_released, checks),
             Memory_sub(g2.sgx_nr_total_epc_pages, g2.sgx_nr_free_pages, checks),
             swap_size(g2, checks),
             read_sgx_enclave(encl, checks), checks)

(* the four rates against the held values of g1 *)
draw_rates(gs, g1, sgx_pages_alloced_new, sgx_pages_freed_new, sgx_ewb_cnt_new, sgx_eldu_cnt_new, encl, checks) ==
  draw_derive(gs,
              [g1 EXCEPT !.sgx_pages_alloced = Some(sgx_pages_alloced_new),
                         !.sgx_pages_freed   = Some(sgx_pages_freed_new),
                         !.sgx_ewb_cnt       = Some(sgx_ewb_cnt_new),
                         !.sgx_eldu_cnt      = Some(sgx_eldu_cnt_new)],
              speed(g1.sgx_pages_alloced, sgx_pages_alloced_new, checks),
              speed(g1.sgx_pages_freed, sgx_pages_freed_new, checks),
              speed(g1.sgx_ewb_cnt, sgx_ewb_cnt_new, checks),
              speed(g1.sgx_eldu_cnt, sgx_eldu_cnt_new, checks),
              encl, checks)

(* the ten fields n, parsed from ntoks pieces, assigned in order *)
draw_assign(gs, ntoks, n, encl, checks) ==
  IF \E i \in 1..10 : n[i] = None
  THEN LET bad == CHOOSE i \in 1..10 : n[i] = None /\ \A j \in 1..(i - 1) : n[j] # None
       IN Panicked(gs, IF bad > ntoks THEN "stats_missing_field" ELSE "overflow_parse")
  ELSE draw_rates(gs,
                  [gs EXCEPT !.sgx_encl_created        = Unwrap(n[1]),
                             !.sgx_encl_released       = Unwrap(n[2]),
                             !.sgx_nr_total_epc_pages  = shl(Unwrap(n[5]), 2),
                             !.sgx_va_pages_cnt        = shl(Unwrap(n[6]), 2),
                             !.sgx_nr_free_pages       = shl(Unwrap(n[7]), 2),
                             !.sgx_freed_backing_pages = shl(Unwrap(n[10]), 2)],
                  shl(Unwrap(n[3]), 2), shl(Unwrap(n[4]), 2),
                  shl(Unwrap(n[8]), 2), shl(Unwrap(n[9]), 2),
                  encl, checks)

draw_tokens(gs, toks, encl, checks) ==
  draw_assign(gs, Len(toks), stats_fields(toks, checks), encl, checks)

(* draw: stats and encl are the outcomes of the two fs::read calls.  The   *)
(* result names the panic ("none" when draw returned), the GlobalStats     *)
(* value after the call and the frame flushed.  A panic ends the process,  *)
(* so the GlobalStats value is reported as it was before the call.         *)
draw(gs, stats, encl, checks) ==
  IF stats = None THEN Panicked(gs, "stats_unreadable")
  ELSE draw_tokens(gs, split(Unwrap(stats), Delims), encl, checks)

---------------------------------------------------------------------------
(* The two /proc files.  A source describes what a file holds; its bytes   *)
(* are what fs::read returns for it.                                       *)

RECURSIVE JoinFields(_)
JoinFields(fs) ==
  IF fs = <<>> THEN <<>>
  ELSE IF Len(fs) = 1 THEN Decimal(fs[1])
  ELSE Decimal(fs[1]) \o <<SP>> \o JoinFields(Tail(fs))

Ok(fs) == [kind |-> "ok", fields |-> fs]
Unread == [kind |-> "unread", fields |-> <<>>]
Unreadable == [kind |-> "unreadable", fields |-> <<>>]

(* "ok": the ten numbers on one line; "short": only the first four;        *)
(* "signed": a '-' before the third number; "alpha": an 'x' after it       *)
StatsRead(src) ==
  CASE src.kind = "unreadable" -> None
    [] src.kind = "ok"     -> Some(JoinFields(src.fields) \o <<LF>>)
    [] src.kind = "short"  -> Some(JoinFields(SubSeq(src.fields, 1, 4)) \o <<LF>>)
    [] src.kind = "signed" -> Some(JoinFields(SubSeq(src.fields, 1, 2)) \o <<SP, 45>>
                                   \o JoinFields(SubSeq(src.fields, 3, 10)) \o <<LF>>)
    [] src.kind = "alpha"  -> Some(JoinFields(SubSeq(src.fields, 1, 3)) \o <<120, SP>>
                                   \o JoinFields(SubSeq(src.fields, 4, 10)) \o <<LF>>)

(* the line terminator styles of /proc/sgx_enclaves *)
Eol(style) ==
  CASE style = "lf"    -> <<LF>>
    [] style = "crlf"  -> <<CR, LF>>
    [] style = "blank" -> <<LF, LF>>
    [] style = "none"  -> <<LF>>

RECURSIVE JoinLines(_, _)
JoinLines(recs, style) ==
  IF recs = <<>> THEN <<>>
  ELSE IF Len(recs) = 1 /\ style = "none" THEN JoinFields(recs[1])
  ELSE JoinFields(recs[1]) \o Eol(style) \o JoinLines(Tail(recs), style)

(* "ok": one line of eight numbers per record, ended in the given style    *)
(* ("none": no terminator after the last line); "short": the first record  *)
(* has only its first five numbers                                         *)
EnclRead(src) ==
  CASE src.kind = "unreadable" -> None
    [] src.kind = "ok"    -> Some(JoinLines(src.fields, src.eol))
    [] src.kind = "short" -> Some(JoinFields(SubSeq(src.fields[1], 1, 5)) \o <<LF>>)

OkEncl(recs, style) == [kind |-> "ok", fields |-> recs, eol |-> style]

(* the sample of the specification's end-to-end scenario *)
BaseStats == <<5, 2, 100, 50, 1000, 10, 200, 30, 20, 5>>
BaseEnclave == <<100, 7, 4194304, 50, 40, 5, 1, 0>>

With(fs, i, v) == [fs EXCEPT ![i] = v]

(* the files of a whole run: well-formed, truncated, ill-formed, unreadable *)
StatsSources ==
  { Ok(BaseStats), Ok(With(BaseStats, 3, 150)),
    [kind |-> "short", fields |-> BaseStats],
    [kind |-> "signed", fields |-> BaseStats],
    [kind |-> "alpha", fields |-> BaseStats],
    Unreadable }

EnclSources ==
  { OkEncl(<<BaseEnclave>>, "lf"), OkEncl(<<>>, "lf"),
    [kind |-> "short", fields |-> <<BaseEnclave>>, eol |-> "lf"],
    [kind |-> "unreadable", fields |-> <<>>, eol |-> "lf"] }

---------------------------------------------------------------------------
(* Events: the channel fed by the timer thread and the keyboard thread *)

Tick == <<"Tick">>
Input(k) == <<"Input", k>>
Keys == {"q", "Ctrl-c", "x"}

TicksQueued == Cardinality({i \in 1..Len(queue) : queue[i] = Tick})

Events_next(q) == [event |-> Head(q), rest |-> Tail(q)]

---------------------------------------------------------------------------
(* main *)

Init ==
  /\ overflow_checks \in BOOLEAN
  /\ pc = "init"
  /\ g = GlobalStats_new
  /\ cursor = "shown"
  /\ frame = None
  /\ queue = <<>>
  /\ stats_src = Unread
  /\ encl_src = [kind |-> "unread", fields |-> <<>>, eol |-> "lf"]
  /\ draws = 0
  /\ resets = 0
  /\ fault = "none"
  /\ last = <<>>
  /\ ev = [res |-> "unset", v |-> <<>>]
  /\ mem = 0
  /\ shown = <<>>

(* g.draw() with the two files as the kernel shows them at that moment *)
Draw(s, e) ==
  \E r \in {draw(g, StatsRead(s), EnclRead(e), overflow_checks)} :
     /\ stats_src' = s
     /\ encl_src' = IF r.fault \in {"none", "enclaves_unreadable", "enclaves_malformed"}
                    THEN e ELSE encl_src
     /\ draws' = draws + 1
     /\ cursor' = "hidden"
     /\ fault' = r.fault
     /\ g' = r.g
     /\ frame' = IF r.fault = "none" THEN r.frame ELSE frame
     /\ pc' = IF r.fault = "none" THEN "running" ELSE "panicked"

(* GlobalStats::reset *)
Reset ==
  /\ cursor' = "shown"
  /\ resets' = resets + 1

IsQuit_only_q(input) == input = "q"

IsQuit_any_key(input) == input \in {"q", "Ctrl-c", "x"}

IsQuit(input) == input = "q" \/ input = "Ctrl-c"

(* the first g.draw(), before the loop *)
Start(S, E) ==
  /\ pc = "init"
  /\ \E s \in S, e \in E : Draw(s, e)
  /\ UNCHANGED <<overflow_checks, queue, resets, last, ev, mem, shown>>

(* the timer thread sends a Tick *)
TimerTick ==
  /\ Len(queue) < MaxQueue
  /\ draws + TicksQueued < MaxDraws
  /\ queue' = Append(queue, Tick)
  /\ UNCHANGED <<overflow_checks, pc, g, cursor, frame, stats_src, encl_src,
                 draws, resets, fault, last, ev, mem, shown>>

(* the keyboard thread sends the key it read *)
KeyPress ==
  /\ Len(queue) < MaxQueue
  /\ \E k \in Keys : queue' = Append(queue, Input(k))
  /\ UNCHANGED <<overflow_checks, pc, g, cursor, frame, stats_src, encl_src,
                 draws, resets, fault, last, ev, mem, shown>>

OnTick_coalesced(S, E) ==
  IF \E i \in 1..Len(Tail(queue)) : Tail(queue)[i] = Tick
  THEN UNCHANGED <<pc, g, cursor, frame, stats_src, encl_src, draws, resets, fault>>
  ELSE /\ \E s \in S, e \in E : Draw(s, e)
       /\ UNCHANGED resets

(* Event::Tick => g.draw() *)
OnTick(S, E) ==
  /\ \E s \in S, e \in E : Draw(s, e)
  /\ UNCHANGED resets

(* Event::Input(input): 'q' and Ctrl-c reset and break, any other key does nothing *)
OnInput(input) ==
  IF IsQuit(input)
  THEN /\ Reset
       /\ pc' = "terminated"
       /\ UNCHANGED <<g, frame, stats_src, encl_src, draws, fault>>
  ELSE UNCHANGED <<pc, g, cursor, frame, stats_src, encl_src, draws, resets, fault>>

(* one turn of the loop: events.next() and the match on the event *)
MainLoop(S, E) ==
  /\ pc = "running"
  /\ queue # <<>>
  /\ LET nx == Events_next(queue)
     IN /\ queue' = nx.rest
        /\ last' = nx.event
        /\ IF nx.event = Tick THEN OnTick(S, E) ELSE OnInput(nx.event[2])
  /\ UNCHANGED <<overflow_checks, ev, mem, shown>>

Next ==
  \/ Start(StatsSources, EnclSources)
  \/ TimerTick
  \/ KeyPress
  \/ MainLoop(StatsSources, EnclSources)

Spec == Init /\ [][Next]_vars

---------------------------------------------------------------------------
(* Runs without keypresses over well-formed statistics whose counters rise *)
(* and fall: one group of fields varies at a time, the others hold the     *)
(* values of BaseStats                                                     *)

Counts == 0..MaxCount

RateSources ==
       { Ok(With(With(BaseStats, 3, a), 4, b)) : a \in Counts, b \in Counts }
  \cup { Ok(With(With(With(BaseStats, 8, a), 9, b), 10, c)) : a \in Counts, b \in Counts, c \in Counts }
  \cup { Ok(With(With(BaseStats, 1, a), 2, b)) : a \in Counts, b \in Counts }
  \cup { Ok(With(With(BaseStats, 5, a), 7, b)) : a \in Counts, b \in Counts }

NextDraw ==
  \/ Start(RateSources, {OkEncl(<<BaseEnclave>>, "lf")})
  \/ TimerTick
  \/ MainLoop(RateSources, {OkEncl(<<BaseEnclave>>, "lf")})

SpecDraw == Init /\ [][NextDraw]_vars

---------------------------------------------------------------------------
(* read_sgx_enclave on its own, over streams of up to MaxLines records *)

EnclaveRecords ==
  { BaseEnclave,
    With(BaseEnclave, 1, 101), With(BaseEnclave, 2, 8),
    With(BaseEnclave, 3, 1023), With(BaseEnclave, 3, 5000),
    With(BaseEnclave, 4, 51), With(BaseEnclave, 4, U64Modulus \div 2 + 1),
    With(BaseEnclave, 5, 41), With(BaseEnclave, 6, 6),
    With(BaseEnclave, 7, 17), With(BaseEnclave, 8, 3) }

RECURSIVE SeqsUpTo(_, _)
SeqsUpTo(S, n) ==
  IF n = 0 THEN {<<>>}
  ELSE LET shorter == SeqsUpTo(S, n - 1)
       IN shorter \cup { Append(q, x) : q \in shorter, x \in S }

EnclStreams ==
       { OkEncl(recs, style) : recs \in SeqsUpTo(EnclaveRecords, MaxLines),
                               style \in {"lf", "crlf", "blank", "none"} }
  \cup { [kind |-> "short", fields |-> <<r>>, eol |-> "lf"] : r \in EnclaveRecords }

InitEnclaves ==
  /\ overflow_checks \in BOOLEAN
  /\ pc = "init"
  /\ g = GlobalStats_new
  /\ cursor = "shown"
  /\ frame = None
  /\ queue = <<>>
  /\ stats_src = Unread
  /\ encl_src \in EnclStreams
  /\ draws = 0
  /\ resets = 0
  /\ fault = "none"
  /\ last = <<>>
  /\ ev = [res |-> "unset", v |-> <<>>]
  /\ mem = 0
  /\ shown = <<>>

ReadEnclaves ==
  /\ ev.res = "unset"
  /\ ev' = read_sgx_enclave(EnclRead(encl_src), overflow_checks)
  /\ UNCHANGED <<overflow_checks, pc, g, cursor, frame, queue, stats_src, encl_src,
                 draws, resets, fault, last, mem, shown>>

SpecEnclaves == InitEnclaves /\ [][ReadEnclaves]_vars

---------------------------------------------------------------------------
(* Display for Memory on its own *)

MemValues ==
  (0..MaxMem) \cup {1024 * 1024 - 1, 1024 * 1024, 1024 * 9999 + 1023, 1024 * 10000,
                    U64Modulus - 1}

InitDisplay ==
  /\ overflow_checks \in BOOLEAN
  /\ pc = "init"
  /\ g = GlobalStats_new
  /\ cursor = "shown"
  /\ frame = None
  /\ queue = <<>>
  /\ stats_src = Unread
  /\ encl_src = [kind |-> "unread", fields |-> <<>>, eol |-> "lf"]
  /\ draws = 0
  /\ resets = 0
  /\ fault = "none"
  /\ last = <<>>
  /\ ev = [res |-> "unset", v |-> <<>>]
  /\ mem \in MemValues
  /\ shown = <<>>

Display ==
  /\ shown = <<>>
  /\ shown' = Memory_fmt(mem)
  /\ UNCHANGED <<overflow_checks, pc, g, cursor, frame, queue, stats_src, encl_src,
                 draws, resets, fault, last, ev, mem>>

SpecDisplay == InitDisplay /\ [][Display]_vars

---------------------------------------------------------------------------
(* Properties *)

(* positions of the four rate-bearing counters in /proc/sgx_stats *)
RateCounters == {3, 4, 8, 9}

Held(gs, c) ==
  CASE c = 3 -> gs.sgx_pages_alloced
    [] c = 4 -> gs.sgx_pages_freed
    [] c = 8 -> gs.sgx_ewb_cnt
    [] c = 9 -> gs.sgx_eldu_cnt

Rate(fr, c) ==
  CASE c = 3 -> Unwrap(fr).eadd_speed
    [] c = 4 -> Unwrap(fr).eremove_speed
    [] c = 8 -> Unwrap(fr).ewb_speed
    [] c = 9 -> Unwrap(fr).eldu_speed

(* the value a well-formed source shows for a page counter, in kilobytes *)
Sample(src, c) == 4 * src.fields[c]

DrawCalled == draws' = draws + 1
Received == queue # <<>> /\ queue' = Tail(queue)
QuitKeys == {"q", "Ctrl-c"}

(* C1: when a draw finds a rate-bearing counter below the value held for   *)
(* it, that counter's rate is Memory(0): the subtraction neither panics    *)
(* nor wraps.                                                              *)
C1_SpeedSaturates ==
  [][\A c \in RateCounters :
       (/\ DrawCalled
        /\ stats_src'.kind = "ok"
        /\ Held(g, c) # None
        /\ Sample(stats_src', c) < Unwrap(Held(g, c)))
       => /\ fault' # "overflow_speed"
          /\ (pc' = "running" => Rate(frame', c) = 0)]_vars

(* C2: a draw that returns shows, for each rate-bearing counter, rate 0    *)
(* when it is the first draw, and this sample minus the sample of the      *)
(* draw before when that sample was not larger; and it leaves the new      *)
(* sample as the held value whatever the rate was.                         *)
C2_SpeedIsDelta ==
  [][(DrawCalled /\ pc' = "running" /\ stats_src'.kind = "ok")
       => \A c \in RateCounters :
            /\ Held(g', c) = Some(Sample(stats_src', c))
            /\ (draws = 0 => Rate(frame', c) = 0)
            /\ (draws > 0 /\ stats_src.kind = "ok" /\ Sample(stats_src', c) >= Sample(stats_src, c)
                  => Rate(frame', c) = Sample(stats_src', c) - Sample(stats_src, c))]_vars

C2_Witness ==
  /\ draws >= 2
  /\ pc = "running"
  /\ last = Tick
  /\ Unwrap(frame).eadd_speed = 4
  /\ Unwrap(frame).eremove_speed = 0
  /\ g.sgx_pages_alloced = Some(4)

(* C3: the first draw of a run shows swap backlog 0 and does not attempt   *)
(* write-back minus load minus freed-backing.                              *)
C3_FirstDrawSwapZero ==
  /\ (draws = 1 /\ frame # None => Unwrap(frame).swap = 0)
  /\ (draws = 1 => fault # "overflow_swap")

(* C4: every frame shows enclaves running = created - released and EPC     *)
(* used = total - free as the true, non-negative differences, and no draw  *)
(* panics computing either.                                                *)
C4_DerivedNonNegative ==
  /\ fault \notin {"overflow_running", "overflow_used"}
  /\ (frame # None =>
        /\ Unwrap(frame).running + g.sgx_encl_released = Unwrap(frame).created
        /\ Unwrap(frame).used + Unwrap(frame).free = Unwrap(frame).total)

(* C5: receiving 'q' or Ctrl-c while running calls reset (cursor shown)    *)
(* and ends the loop with success; once terminated nothing main owns       *)
(* changes, whatever is queued or still produced; reset is called at most  *)
(* once, and only on that transition.                                      *)
C5_QuitOnce ==
  [][/\ (pc = "running" /\ Received /\ Head(queue)[1] = "Input" /\ Head(queue)[2] \in QuitKeys
           => pc' = "terminated" /\ resets' = resets + 1 /\ cursor' = "shown")
     /\ (pc = "terminated"
           => UNCHANGED <<pc, g, cursor, frame, stats_src, encl_src, draws, resets, fault, last>>)
     /\ (resets' # resets
           => /\ resets = 0 /\ resets' = 1
              /\ pc = "running" /\ pc' = "terminated"
              /\ Received /\ Head(queue)[1] = "Input" /\ Head(queue)[2] \in QuitKeys)]_vars

C5_Witness ==
  /\ pc = "terminated"
  /\ resets = 1
  /\ cursor = "shown"
  /\ last = Input("Ctrl-c")
  /\ queue # <<>>
  /\ draws >= 2

C7_OtherKeyNoEffect ==
  [][(pc = "running" /\ Received /\ Head(queue)[1] = "Input" /\ Head(queue)[2] \notin QuitKeys)
       => UNCHANGED <<pc, g, cursor, frame, stats_src, encl_src, draws, resets, fault>>]_vars

C7_Witness ==
  /\ pc = "running"
  /\ last = Input("x")
  /\ draws >= 2
  /\ g.sgx_pages_alloced = Some(600)

(* C8: main panics only at the first draw and only because a file could    *)
(* not be read.                                                            *)
C8_OnlyStartupFatal ==
  pc = "panicked" => draws = 1 /\ fault \in {"stats_unreadable", "enclaves_unreadable"}

(* C9: for a stream of well-formed lines read_sgx_enclave returns Ok with  *)
(* one record per line, in line order, each field from its own position:   *)
(* virt = raw >> 10, eadds, rss, va, swap = raw << 2, pid, eid and state   *)
(* as read; empty lines give no record.                                    *)
ExpectedEnclave(r) ==
  [pid   |-> r[1],
   eid   |-> r[2],
   virt  |-> r[3] \div 1024,
   eadds |-> (r[4] * 4) % U64Modulus,
   rss   |-> (r[5] * 4) % U64Modulus,
   va    |-> (r[6] * 4) % U64Modulus,
   state |-> r[7],
   swap  |-> (r[8] * 4) % U64Modulus]

C9_RecordsInOrder ==
  (ev.res # "unset" /\ encl_src.kind = "ok")
    => /\ ev.res = "Ok"
       /\ Len(ev.v) = Len(encl_src.fields)
       /\ \A k \in 1..Len(encl_src.fields) : ev.v[k] = ExpectedEnclave(encl_src.fields[k])

C9_Witness ==
  /\ ev.res = "Ok"
  /\ encl_src.eol = "blank"
  /\ Len(ev.v) = 2
  /\ ev.v[1].swap = 12 /\ ev.v[1].state = 1
  /\ ev.v[2].virt = 0 /\ ev.v[2].eadds = 200

(* C10: Display writes floor(v / 1024) and "M" when v >= 1024, v and "K"   *)
(* otherwise, the number in decimal, right-justified in seven columns.     *)
RECURSIVE DigitsValue(_)
DigitsValue(ds) ==
  IF ds = <<>> THEN 0
  ELSE 10 * DigitsValue(SubSeq(ds, 1, Len(ds) - 1)) + (ds[Len(ds)] - 48)

Renders(b, n, unit) ==
  /\ Len(b) = 8
  /\ b[8] = unit
  /\ \E k \in 1..7 :
       /\ \A i \in 1..(k - 1) : b[i] = 32
       /\ \A i \in k..7 : b[i] \in 48..57
       /\ (k < 7 => b[k] # 48)
       /\ DigitsValue(SubSeq(b, k, 7)) = n

C10_MemoryDisplay ==
  shown # <<>> =>
    /\ (mem >= 1024 => Renders(shown, mem \div 1024, 77))
    /\ (mem < 1024 => Renders(shown, mem, 75))
    /\ (mem = 1023 => shown = <<32, 32, 32, 49, 48, 50, 51, 75>>)
    /\ (mem = 1024 => shown = <<32, 32, 32, 32, 32, 32, 49, 77>>)
    /\ (mem = 2048 => shown = <<32, 32, 32, 32, 32, 32, 50, 77>>)
    /\ (mem = 512 => shown = <<32, 32, 32, 32, 53, 49, 50, 75>>)

C10_Witness ==
  /\ mem = 2047
  /\ shown = <<32, 32, 32, 32, 32, 32, 49, 77>>

====
